---- MODULE Spec2Model ----
(***************************************************************************)
(* Model of Alarma.ino: an ESP32 sketch that creates a Wi-Fi access point  *)
(* and serves three routes ("/", "/on", "/off") that drive two LEDs and a  *)
(* buzzer.  Every statement of setup(), loop() and of the three handlers   *)
(* is one step of the single thread of control; pc is its position.        *)
(***************************************************************************)
EXTENDS Integers, Sequences, FiniteSets, TLC

\* ------------------------------------------------------------------ bounds
\* Largest number of requests waiting at the transport layer.
MaxPending == 2

\* ------------------------------------------------------- program constants
led1 == 27
led2 == 26
buzzer == 25
LoopCount == 3
AlarmDelay == 500

LOW == "LOW"
HIGH == "HIGH"

Pins == {led1, led2, buzzer}
Levels == {LOW, HIGH}
Paths == {"/", "/on", "/off"}
NoResponse == [code |-> 0, type |-> "", body |-> << >>, headers |-> {}]
NoRequest == "none"

VARIABLES
    pc,        \* position of the thread of control
    pins,      \* level of every GPIO output latch
    outputs,   \* pins configured with pinMode(.., OUTPUT)
    serialUp,  \* Serial.begin was called
    serial,    \* lines printed on the serial log
    apUp,      \* WiFi.softAP succeeded
    routes,    \* path -> handler registered with server.on
    begun,     \* server.begin was called
    pending,   \* requests waiting at the transport layer, oldest first
    current,   \* path of the request handed to a handler last
    i,         \* loop counter of the "/on" handler
    headers,   \* headers queued with server.sendHeader for the next send
    response,  \* what server.send wrote to the current client
    trace,     \* the pauses of the current handler: <<ms, pins during it>>
    startPins, \* pins when the current request was handed to its handler
    prev       \* path of the request handled before the current one

vars == <<pc, pins, outputs, serialUp, serial, apUp, routes, begun, pending,
          current, i, headers, response, trace, startPins, prev>>

hw == <<outputs, serialUp, serial, apUp, routes, begun>>
req == <<current, startPins, prev>>

\* ----------------------------------------------------------------- helpers
digitalWrite(pin, val) == [pins EXCEPT ![pin] = val]

\* One digitalWrite statement at label from, continuing at label to.
WriteStep(from, to, pin, val) ==
    /\ pc = from
    /\ pc' = to
    /\ pins' = digitalWrite(pin, val)
    /\ UNCHANGED <<hw, req, pending, i, headers, response, trace>>

\* One delay(ms) statement inside a handler: the thread does nothing else
\* until the pause has ended; the pause is recorded when it ends.
DelayStep(from, to, ms) ==
    /\ pc = from
    /\ pc' = to
    /\ trace' = Append(trace, <<ms, pins>>)
    /\ UNCHANGED <<hw, req, pins, pending, i, headers, response>>

\* server.sendHeader(name, value)
SendHeaderStep(from, to, name, value) ==
    /\ pc = from
    /\ pc' = to
    /\ headers' = headers \cup {<<name, value>>}
    /\ UNCHANGED <<hw, req, pins, pending, i, response, trace>>

\* server.send(code, type, body): the queued headers go out with it; the
\* handler returns to handleClient, which returns to loop().
SendStep(from, code, type, body) ==
    /\ pc = from
    /\ pc' = "loop_delay"
    /\ response' = [code |-> code, type |-> type, body |-> body,
                    headers |-> headers]
    /\ headers' = {}
    /\ UNCHANGED <<hw, req, pins, pending, i, trace>>

\* -------------------------------------------------------------- handleRoot
El(tag, val) == [tag |-> tag, val |-> val]

Html35 == <<El("doctype", "html"), El("title", "Control")>>
Html36 == <<El("body", "flex")>>
Html37 == <<El("style", "gradient")>>
Html39 == <<El("h1", "Control de Alarma")>>
Html40 == <<El("a", "/on"), El("button", "ON")>>
\* Variant of line 41 whose link repeats the one of line 40.
Html41_wrongLink == <<El("a", "/on"), El("button", "OFF")>>
Html41 == <<El("a", "/off"), El("button", "OFF")>>
Html43 == <<El("/body", ""), El("/html", "")>>

RootHtml == Html35 \o Html36 \o Html37 \o Html39 \o Html40 \o Html41 \o Html43

handleRoot == SendStep("root_send", 200, "text/html", RootHtml)

\* ------------------------------------------------------------------ setup
SetupStep(from, to) == pc = from /\ pc' = to

Setup_pinMode_led1 ==
    /\ SetupStep("setup_54", "setup_55")
    /\ outputs' = outputs \cup {led1}
    /\ UNCHANGED <<pins, serialUp, serial, apUp, routes, begun, pending, req,
                   i, headers, response, trace>>

Setup_pinMode_led2 ==
    /\ SetupStep("setup_55", "setup_56")
    /\ outputs' = outputs \cup {led2}
    /\ UNCHANGED <<pins, serialUp, serial, apUp, routes, begun, pending, req,
                   i, headers, response, trace>>

Setup_pinMode_buzzer ==
    /\ SetupStep("setup_56", "setup_58")
    /\ outputs' = outputs \cup {buzzer}
    /\ UNCHANGED <<pins, serialUp, serial, apUp, routes, begun, pending, req,
                   i, headers, response, trace>>

Setup_Serial_begin ==
    /\ SetupStep("setup_58", "setup_61")
    /\ serialUp' = TRUE
    /\ UNCHANGED <<pins, outputs, serial, apUp, routes, begun, pending, req,
                   i, headers, response, trace>>

\* Variant of lines 61-64 without the while (true): a failure is logged and
\* setup goes on.
Setup_softAP_noHalt ==
    /\ pc = "setup_61"
    /\ \E ok \in BOOLEAN :
          /\ apUp' = ok
          /\ pc' = "setup_66"
          /\ serial' = IF ok THEN serial
                       ELSE Append(serial, "Error al crear el Access Point.")
    /\ UNCHANGED <<pins, outputs, serialUp, routes, begun, pending, req,
                   i, headers, response, trace>>

\* if (!WiFi.softAP(ssid, password)) { println(..); while (true); }
Setup_softAP ==
    /\ pc = "setup_61"
    /\ \E ok \in BOOLEAN :
          /\ apUp' = ok
          /\ IF ok
               THEN pc' = "setup_66" /\ serial' = serial
               ELSE /\ pc' = "halt"
                    /\ serial' = Append(serial, "Error al crear el Access Point.")
    /\ UNCHANGED <<pins, outputs, serialUp, routes, begun, pending, req,
                   i, headers, response, trace>>

\* while (true);
Setup_halt ==
    /\ pc = "halt"
    /\ UNCHANGED vars

Setup_print_IP ==
    /\ SetupStep("setup_66", "setup_70")
    /\ serial' = Append(serial, "Direccion IP del AP: ")
    /\ UNCHANGED <<pins, outputs, serialUp, apUp, routes, begun, pending, req,
                   i, headers, response, trace>>

\* server.on(path, handler)
ServerOn(from, to, path, handler) ==
    /\ SetupStep(from, to)
    /\ routes' = [p \in DOMAIN routes \cup {path} |->
                     IF p = path THEN handler ELSE routes[p]]
    /\ UNCHANGED <<pins, outputs, serialUp, serial, apUp, begun, pending, req,
                   i, headers, response, trace>>

Setup_on_root == ServerOn("setup_70", "setup_77", "/", "root_send")
Setup_on_on == ServerOn("setup_77", "setup_104", "/on", "on_for_init")
Setup_on_off == ServerOn("setup_104", "setup_113", "/off", "off_105")

Setup_begin ==
    /\ SetupStep("setup_113", "loop_handleClient")
    /\ begun' = TRUE
    /\ serial' = Append(serial, "Servidor HTTP iniciado")
    /\ UNCHANGED <<pins, outputs, serialUp, apUp, routes, pending, req,
                   i, headers, response, trace>>

\* ------------------------------------------------------- the "/on" handler
On_for_init ==
    /\ pc = "on_for_init"
    /\ i' = 0
    /\ pc' = "on_for_test"
    /\ UNCHANGED <<hw, req, pins, pending, headers, response, trace>>

\* Variant of line 78 with the test i <= 3.
On_for_test_offByOne ==
    /\ pc = "on_for_test"
    /\ pc' = IF i <= LoopCount THEN "on_79" ELSE "on_91"
    /\ UNCHANGED <<hw, req, pins, pending, i, headers, response, trace>>

On_for_test ==
    /\ pc = "on_for_test"
    /\ pc' = IF i < LoopCount THEN "on_79" ELSE "on_91"
    /\ UNCHANGED <<hw, req, pins, pending, i, headers, response, trace>>

\* Variants of single statements of the handler.
\* Line 80 missing.
On_80_skipped == WriteStep("on_80", "on_81", led2, pins[led2])
\* Line 85 missing.
On_85_skipped == WriteStep("on_85", "on_86", led2, pins[led2])
\* Line 91 missing.
On_91_skipped == WriteStep("on_91", "on_92", led1, pins[led1])
\* Line 82 with a delay that lets the server take the oldest waiting request
\* and run it while the handler pauses.
On_82_servicesClients ==
    /\ pc = "on_82"
    /\ pc' = "on_84"
    /\ trace' = Append(trace, <<AlarmDelay, pins>>)
    /\ IF pending = << >>
         THEN UNCHANGED <<pending, pins>>
         ELSE /\ pending' = Tail(pending)
              /\ pins' = IF Head(pending) = "/off"
                           THEN [p \in Pins |-> LOW] ELSE pins
    /\ UNCHANGED <<hw, req, i, headers, response>>
\* Line 87 with a pause that gives the sequence up, returning to loop()
\* without a response, when another request is waiting.
On_87_cancellable ==
    /\ pc = "on_87"
    /\ pc' = IF pending = << >> THEN "on_for_incr" ELSE "loop_delay"
    /\ trace' = Append(trace, <<AlarmDelay, pins>>)
    /\ UNCHANGED <<hw, req, pins, pending, i, headers, response>>

On_79 == WriteStep("on_79", "on_80", led1, HIGH)
On_80 == WriteStep("on_80", "on_81", led2, LOW)
On_81 == WriteStep("on_81", "on_82", buzzer, HIGH)
On_82 == DelayStep("on_82", "on_84", AlarmDelay)
On_84 == WriteStep("on_84", "on_85", led1, LOW)
On_85 == WriteStep("on_85", "on_86", led2, HIGH)
On_86 == WriteStep("on_86", "on_87", buzzer, LOW)
On_87 == DelayStep("on_87", "on_for_incr", AlarmDelay)

On_for_incr ==
    /\ pc = "on_for_incr"
    /\ i' = i + 1
    /\ pc' = "on_for_test"
    /\ UNCHANGED <<hw, req, pins, pending, headers, response, trace>>

On_91 == WriteStep("on_91", "on_92", led1, HIGH)
On_92 == WriteStep("on_92", "on_93", buzzer, HIGH)
On_93 == DelayStep("on_93", "on_95", AlarmDelay)
On_95 == SendHeaderStep("on_95", "on_96", "Location", "/")
On_96 == SendStep("on_96", 303, "", << >>)

\* ------------------------------------------------------ the "/off" handler
\* Line 105 toggling led1 instead of writing LOW.
Off_105_toggle ==
    WriteStep("off_105", "off_106", led1, IF pins[led1] = HIGH THEN LOW ELSE HIGH)
\* Line 106 missing.
Off_106_skipped == WriteStep("off_106", "off_107", led2, pins[led2])

Off_105 == WriteStep("off_105", "off_106", led1, LOW)
Off_106 == WriteStep("off_106", "off_107", led2, LOW)
Off_107 == WriteStep("off_107", "off_109", buzzer, LOW)
Off_109 == SendHeaderStep("off_109", "off_110", "Location", "/")
Off_110 == SendStep("off_110", 303, "", << >>)

\* ------------------------------------------------------------------- loop
\* server.handleClient(): with no client waiting it returns at once; else it
\* takes the oldest waiting request and calls the handler registered for it.
Loop_handleClient ==
    /\ pc = "loop_handleClient"
    /\ IF pending = << >>
         THEN /\ pc' = "loop_delay"
              /\ UNCHANGED <<pending, req, response, trace>>
         ELSE /\ Head(pending) \in DOMAIN routes
              /\ pc' = routes[Head(pending)]
              /\ pending' = Tail(pending)
              /\ current' = Head(pending)
              /\ prev' = current
              /\ startPins' = pins
              /\ response' = NoResponse
              /\ trace' = << >>
    /\ UNCHANGED <<hw, pins, i, headers>>

\* delay(2)
Loop_delay ==
    /\ pc = "loop_delay"
    /\ pc' = "loop_handleClient"
    /\ UNCHANGED <<hw, req, pins, pending, i, headers, response, trace>>

\* ------------------------------------------------------------ environment
\* A client of the access point sends a request to the listening server.
Arrive ==
    /\ begun
    /\ Len(pending) < MaxPending
    /\ \E p \in Paths : pending' = Append(pending, p)
    /\ UNCHANGED <<hw, req, pc, pins, i, headers, response, trace>>

\* ------------------------------------------------------------------ system
\* After reset the sketch never writes a pin before the first request, so
\* the levels the latches start with are whatever the hardware gives.
Init ==
    /\ pc = "setup_54"
    /\ pins \in [Pins -> Levels]
    /\ outputs = {}
    /\ serialUp = FALSE
    /\ serial = << >>
    /\ apUp = FALSE
    /\ routes = << >>
    /\ begun = FALSE
    /\ pending = << >>
    /\ current = NoRequest
    /\ i = 0
    /\ headers = {}
    /\ response = NoResponse
    /\ trace = << >>
    /\ startPins = pins
    /\ prev = NoRequest

Setup ==
    \/ Setup_pinMode_led1 \/ Setup_pinMode_led2 \/ Setup_pinMode_buzzer
    \/ Setup_Serial_begin \/ Setup_softAP \/ Setup_halt \/ Setup_print_IP
    \/ Setup_on_root \/ Setup_on_on \/ Setup_on_off \/ Setup_begin

OnHandler ==
    \/ On_for_init \/ On_for_test \/ On_79 \/ On_80 \/ On_81 \/ On_82
    \/ On_84 \/ On_85 \/ On_86 \/ On_87 \/ On_for_incr
    \/ On_91 \/ On_92 \/ On_93 \/ On_95 \/ On_96

OffHandler == Off_105 \/ Off_106 \/ Off_107 \/ Off_109 \/ Off_110

Program ==
    \/ Setup \/ OnHandler \/ OffHandler \/ handleRoot
    \/ Loop_handleClient \/ Loop_delay

Next == Program \/ Arrive

Spec == Init /\ [][Next]_vars

\* The processor never stops executing the sketch.
FairSpec == Spec /\ WF_vars(Program)

\* ============================================================== properties
OnLabels ==
    {"on_for_init", "on_for_test", "on_79", "on_80", "on_81", "on_82", "on_84",
     "on_85", "on_86", "on_87", "on_for_incr", "on_91", "on_92", "on_93",
     "on_95", "on_96"}
OffLabels == {"off_105", "off_106", "off_107", "off_109", "off_110"}
HandlerLabels == OnLabels \cup OffLabels \cup {"root_send"}
LoopLabels == {"loop_handleClient", "loop_delay"}

\* The handler of the last request for path has sent its response.
Completed(path) == current = path /\ response # NoResponse

AllLow == \A p \in Pins : pins[p] = LOW
AllHigh == \A p \in Pins : pins[p] = HIGH
Alternating == pins[led1] # pins[led2] /\ pins[buzzer] = pins[led1]
Redirect == [code |-> 303, type |-> "", body |-> << >>,
             headers |-> {<<"Location", "/">>}]

Levels3(a, b, z) == [p \in Pins |-> IF p = led1 THEN a ELSE IF p = led2 THEN b ELSE z]
FirstHalf == <<AlarmDelay, Levels3(HIGH, LOW, HIGH)>>
SecondHalf == <<AlarmDelay, Levels3(LOW, HIGH, LOW)>>
Steady == <<AlarmDelay, Levels3(HIGH, HIGH, HIGH)>>
AlarmSequence ==
    <<FirstHalf, SecondHalf, FirstHalf, SecondHalf, FirstHalf, SecondHalf, Steady>>

IsPrefix(s, t) == Len(s) <= Len(t) /\ SubSeq(t, 1, Len(s)) = s
Links(h) == {h[k].val : k \in {j \in DOMAIN h : h[j].tag = "a"}}

\* C1: once the "/off" handler has sent its response, led1, led2 and the
\* buzzer are all LOW, whatever the pins were when the request was taken.
C1_OffLeavesAllLow == Completed("/off") => AllLow

\* C1 witness: "/off" completed right after "/on", entered with all pins HIGH.
C1_Witness ==
    /\ Completed("/off")
    /\ prev = "/on"
    /\ \A p \in Pins : startPins[p] = HIGH
    /\ response = Redirect

\* C2 (as stated): in every state of the three repetitions, from the first
\* pause on, led1 and led2 are at opposite levels and the buzzer equals led1.
\* The states before the first pause, where the pins still hold what the
\* request found, are left out, which only helps the statement.
C2_AlwaysAlternating ==
    (pc \in {"on_79", "on_80", "on_81", "on_82", "on_84", "on_85", "on_86",
             "on_87", "on_for_incr"} /\ Len(trace) >= 1)
        => Alternating

\* C2 (amended): during each of the six pauses of the three repetitions led1
\* and led2 are at opposite levels and the buzzer equals led1.
C2_AlternatingDuringPauses == pc \in {"on_82", "on_87"} => Alternating

\* C2 witness: the last pause of the third repetition, in a request that
\* found led1 and led2 at the same level.
C2_Witness ==
    /\ pc = "on_87"
    /\ i = LoopCount - 1
    /\ startPins[led1] = startPins[led2]
    /\ Alternating

\* C3: once the "/on" handler has sent its response, led1 and the buzzer are
\* HIGH.
C3_OnLeavesLedAndBuzzerHigh ==
    Completed("/on") => pins[led1] = HIGH /\ pins[buzzer] = HIGH

\* C3 witness: "/on" completed for a request that found both LOW.
C3_Witness ==
    /\ Completed("/on")
    /\ startPins[led1] = LOW
    /\ startPins[buzzer] = LOW

\* C4: the "/on" handler has sent nothing while it runs, and what it sends is
\* the 303 with Location: / after exactly the seven pauses of 500 ms, in
\* order: three times (HIGH, LOW, HIGH) then (LOW, HIGH, LOW), and a last
\* pause with led1 and the buzzer HIGH.
C4_ResponseAfterWholeSequence ==
    /\ (current = "/on" /\ pc \in OnLabels) => response = NoResponse
    /\ Completed("/on") => (response = Redirect /\ trace = AlarmSequence)

\* C4 witness: "/on" has just returned with its response and seven pauses.
C4_Witness ==
    /\ Completed("/on")
    /\ pc = "loop_delay"
    /\ Len(trace) = 2 * LoopCount + 1

\* What a failed access point leaves, and what needs the access point.
C5_HaltedState ==
    /\ pc = "halt" =>
          /\ ~apUp /\ DOMAIN routes = {} /\ ~begun
          /\ pending = << >> /\ current = NoRequest /\ response = NoResponse
    /\ (DOMAIN routes # {} \/ begun \/ current # NoRequest
        \/ pc \in LoopLabels \cup HandlerLabels) => apUp
    /\ begun => DOMAIN routes = Paths

\* C5: when WiFi.softAP fails the sketch halts for good: no route is ever
\* registered, the server never begins, loop() is never entered and no
\* request is taken; routes and requests exist only after a success.
C5_AccessPointFailureHalts ==
    /\ []C5_HaltedState
    /\ [][pc = "halt" => pc' = "halt"]_vars
    /\ [][pc' = "halt" => (pc = "halt" \/ (pc = "setup_61" /\ ~apUp'))]_vars

\* C5 witness: halted, with the failure on the serial log.
C5_Witness ==
    /\ pc = "halt"
    /\ serial = <<"Error al crear el Access Point.">>
    /\ outputs = Pins

\* C6: "/off" handled right after "/off" leaves the pins as the first left
\* them (startPins of the second request: no pin changes between handlers).
C6_OffIdempotent ==
    (Completed("/off") /\ prev = "/off") => pins = startPins

\* C6 witness: two "/off" in a row have completed.
C6_Witness ==
    /\ Completed("/off")
    /\ prev = "/off"
    /\ pc \in LoopLabels

\* C7: the answer to "/" is 200, text/html, with no extra header, and a page
\* whose links are /on and /off, whatever the pins are.
C7_RootPage ==
    Completed("/") =>
        /\ response.code = 200
        /\ response.type = "text/html"
        /\ response.headers = {}
        /\ Links(response.body) = {"/on", "/off"}
        /\ pins = startPins

\* C7 witness: "/" answered after "/on", with every pin HIGH.
C7_Witness ==
    /\ Completed("/")
    /\ prev = "/on"
    /\ AllHigh

\* C8: while a handler runs no other request is taken: the waiting requests
\* only grow, the request being handled stays, a step that is not the
\* handler's changes no pin; a request leaves the queue only in
\* handleClient, called from loop().
C8_OneRequestAtATime ==
    [][ /\ pc \in HandlerLabels =>
             /\ IsPrefix(pending, pending')
             /\ current' = current
             /\ startPins' = startPins
             /\ (pc' = pc => pins' = pins)
        /\ ~IsPrefix(pending, pending') =>
             /\ pc = "loop_handleClient"
             /\ pc' \in HandlerLabels
             /\ current' = Head(pending)
             /\ pending' = Tail(pending) ]_vars

\* C8 witness: the alarm sequence is in a pause while requests wait.
C8_Witness ==
    /\ current = "/on"
    /\ pc = "on_87"
    /\ Len(pending) = MaxPending

\* Some waiting request is for "/off".
OffWaiting == \E k \in DOMAIN pending : pending[k] = "/off"

\* C9: a started "/on" handler always comes to send its 303, after the whole
\* sequence, and returns to loop(); nothing takes it out of the sequence; an
\* "/off" that arrived meanwhile is then handled and leaves the pins LOW.
C9_SequenceRunsToCompletion ==
    /\ (pc \in OnLabels) ~>
          (pc = "loop_delay" /\ Completed("/on") /\ response = Redirect
           /\ trace = AlarmSequence)
    /\ (pc \in OnLabels /\ OffWaiting) ~>
          (pc = "loop_delay" /\ Completed("/off") /\ AllLow)
    /\ [][(pc \in OnLabels) => (pc' \in OnLabels \/ response' = Redirect)]_vars

\* C9 witness: "/off" is waiting during the last pause of the sequence.
C9_Witness ==
    /\ pc = "on_93"
    /\ OffWaiting

\* C10: from the last pause of the "/on" handler on, and once it has sent its
\* response, all three pins are HIGH: led2 keeps the HIGH of line 85.
C10_OnLeavesAllHigh ==
    ((current = "/on" /\ pc \in {"on_93", "on_95", "on_96"}) \/ Completed("/on"))
        => AllHigh

\* C10 witness: "/on" completed for a request that found led2 LOW.
C10_Witness ==
    /\ Completed("/on")
    /\ startPins[led2] = LOW
    /\ pins[led2] = HIGH

====
